---- MODULE Spec2Model ----
(***************************************************************************)
(* Model of the miniflare dev-server plugin of cf-honox-vite               *)
(* (src/src/index.ts, src/src/utils.ts): the debounced, serialized rebuild *)
(* pipeline of miniflareDevServer, the life cycle of the emulator instance *)
(* it owns, the file watcher, the request middleware with its responses    *)
(* and the base-path helpers.                                              *)
(*                                                                         *)
(* Node runs the plugin on one thread: a step of the model is one run of   *)
(* a callback up to its next `await` (with the microtasks it drains), so   *)
(* every action below is atomic exactly where the code is.                 *)
(***************************************************************************)
EXTENDS Integers, Sequences, FiniteSets, TLC

\* ------------------------------------------------------------------ bounds
\* Number of watcher events that reach scheduleRebuild in one run.
MaxSched == 3
\* Largest debounce interval (options.reloadDebounceMs), in clock ticks.
MaxDebounce == 2

\* Longest request target (req.url), in characters.
MaxUrlLen == 4
\* Longest configured base path (options.base), in characters.
MaxBaseLen == 3
\* Longest target of the characters "/" and "a" (scheme-relative targets).
MaxTargetLen == 5
\* Longest path of a changed file, in characters.
MaxFileLen == 4

Handles == 1..MaxSched
\* Top-level calls of rebuildWorker: 0 is the call of configureServer, h > 0
\* the call made by the callback of timer h.
Calls == 0..MaxSched
Debounces == 1..MaxDebounce

VARIABLES
    \* closure state of miniflareDevServer (index.ts 207-213)
    mf,               \* "undefined" | "instance"
    rebuildTimer,     \* 0 (undefined) or the handle of the last setTimeout
    buildInProgress,
    buildQueued,
    \* options
    reloadDebounceMs,
    \* environment: the host dev server, the timers, the bundler, the emulator
    phase,            \* "constructed" | "starting" | "serving" | "failed"
    closed,           \* the HTTP listener has emitted "close"
    timers,           \* handle -> [st, left]
    nSched,           \* handles handed out by setTimeout so far
    call,             \* call -> position of that rebuildWorker call
    artifact,         \* number of the build whose worker.mjs is on disk
    mfLoaded,         \* number of the build the emulator was last given
    mfDisposed,       \* instance.dispose() has been called
    \* observations (history) used by the properties
    sinceSched,       \* ticks since the last scheduleRebuild, capped
    gap,              \* handle -> sinceSched when that call was made
    started,          \* bundler invocations started so far
    completed,        \* rebuild bodies (bundler + emulator update) finished
    windowCalls,      \* rebuildWorker calls that found a build in progress
    lastWindow,       \* windowCalls at the last completion
    lastThrew,        \* the last completed rebuild body threw
    trigger,          \* what started the last bundler invocation
    constructed,      \* new Miniflare(...) evaluations so far
    disposeCalls,     \* dispose() calls so far
    reloads,          \* full-reload messages sent so far
    succeeded,        \* rebuild bodies that ran to the end of the try block
    reloadFor,        \* build number the last full-reload was sent for
    builtAfter,       \* handle -> a bundler invocation started after that call
    \* options and resolved configuration read by the middleware
    base,             \* options.base, a string ("" when not given)
    excludePatterns,  \* options.exclude, a list of patterns
    publicDir,        \* [set: publicDirPath is not empty, files: paths of files]
    \* the request the middleware is handling
    url,              \* req.url
    mwPc,             \* "idle", "convert", "dispatch", "passed", "errored", "sent"
    received,         \* requests the emulator was handed for this request
    workerPath,       \* pathname of the request handed to the emulator
    convertThrew,     \* createWorkerRequest rejected for this request
    response,         \* the response mf.dispatchFetch resolved with
    written,          \* what sendResponse wrote to the host's response
    threwAt,          \* the stage of the handler that raised, or "none"
    \* further options
    injectClientScript,
    outDir,           \* path.resolve(config.root, outDir)
    ignoreWatching,   \* options.ignoreWatching, a list of patterns
    \* the last event the watcher delivered
    lastFile,         \* its file
    lastScheduled,    \* whether its handler called scheduleRebuild
    \* base-path helpers of utils.ts applied on their own
    utilPc,           \* "drawn", "guarded", "rewritten"
    guardInput,       \* argument of the guard: a pathname or undefined
    rewriterInput,    \* argument of the rewriter: a request
    handles,          \* what the guard returned
    rewritten         \* what the rewriter returned

vars == << mf, rebuildTimer, buildInProgress, buildQueued, reloadDebounceMs,
           phase, closed, timers, nSched, call, artifact, mfLoaded, mfDisposed,
           sinceSched, gap, started, completed, windowCalls, lastWindow,
           lastThrew, trigger, constructed, disposeCalls, reloads,
           succeeded, reloadFor, builtAfter, base, excludePatterns,
           publicDir, url, mwPc, received, workerPath, convertThrew,
           response, written, threwAt, injectClientScript, outDir,
           ignoreWatching, lastFile, lastScheduled, utilPc, guardInput,
           rewriterInput, handles, rewritten >>

\* what the middleware reads and writes besides mf
mwVars == << base, excludePatterns, publicDir, url, mwPc, received,
             workerPath, convertThrew, response, written, threwAt,
             injectClientScript, outDir, ignoreWatching >>

\* the history of the watcher
watchVars == << lastFile, lastScheduled >>

\* the helpers of utils.ts applied on their own
utilVars == << utilPc, guardInput, rewriterInput, handles, rewritten >>

buildVars == << mf, rebuildTimer, buildInProgress, buildQueued,
                reloadDebounceMs, phase, closed, timers, nSched, call,
                artifact, mfLoaded, mfDisposed, sinceSched, gap, started,
                completed, windowCalls, lastWindow, lastThrew, trigger,
                constructed, disposeCalls, reloads, succeeded, reloadFor,
                builtAfter, lastFile, lastScheduled >>

configVars == << base, excludePatterns, publicDir, injectClientScript,
                 outDir, ignoreWatching >>

\* ------------------------------------------------------------ small helpers
Min(a, b) == IF a < b THEN a ELSE b

NoCall == [pc |-> "idle", stack |-> << >>, bn |-> 0, builds |-> 0, failed |-> FALSE]

\* Bundler invocations executing now: calls suspended at `await build(...)`.
Bundling == {c \in Calls : call[c].pc = "build"}
\* Emulator reconfigurations executing now: calls at `await mf.setOptions(...)`.
Updating == {c \in Calls : call[c].pc = "setOptions"}
Settled(c) == call[c].pc \in {"resolved", "rejected"}

\* ------------------------------------------------------------------ strings
\* A string is the sequence of its characters; Undefined stands for the
\* JavaScript value undefined where the code has `string | undefined`.
Undefined == << "undefined" >>
Slash == "/"

StartsWith(str, prefix) ==
    /\ Len(prefix) <= Len(str)
    /\ SubSeq(str, 1, Len(prefix)) = prefix

EndsWith(str, suffix) ==
    /\ Len(suffix) <= Len(str)
    /\ SubSeq(str, Len(str) - Len(suffix) + 1, Len(str)) = suffix

Includes(str, part) ==
    \E i \in 1..(Len(str) + 1) :
        /\ i + Len(part) - 1 <= Len(str)
        /\ SubSeq(str, i, i + Len(part) - 1) = part

Slice(str, from) == SubSeq(str, from + 1, Len(str))

\* index of the first character of str, at or after i, that is in chars;
\* Len(str) + 1 when there is none
RECURSIVE IndexOfAny(_, _, _)
IndexOfAny(str, chars, i) ==
    IF i > Len(str) THEN Len(str) + 1
    ELSE IF str[i] \in chars THEN i
    ELSE IndexOfAny(str, chars, i + 1)

\* index of the first character of str, at or after i, that is not a slash
RECURSIVE SkipSlashes(_, _)
SkipSlashes(str, i) ==
    IF i > Len(str) \/ str[i] # Slash THEN i ELSE SkipSlashes(str, i + 1)

\* str.replace(/\/+/g, "/")
RECURSIVE CollapseSlashes(_)
CollapseSlashes(str) ==
    IF Len(str) <= 1 THEN str
    ELSE IF str[1] = Slash /\ str[2] = Slash THEN CollapseSlashes(Tail(str))
    ELSE << str[1] >> \o CollapseSlashes(Tail(str))

\* str.replace(/\/+$/g, "")
RECURSIVE StripTrailingSlashes(_)
StripTrailingSlashes(str) ==
    IF str # << >> /\ str[Len(str)] = Slash
    THEN StripTrailingSlashes(SubSeq(str, 1, Len(str) - 1))
    ELSE str

RECURSIVE StringsUpTo(_, _)
StringsUpTo(chars, n) ==
    IF n = 0 THEN { << >> }
    ELSE LET shorter == StringsUpTo(chars, n - 1) IN
         shorter \cup { Append(w, ch) : w \in shorter, ch \in chars }

\* Request targets in origin form: they start with a slash.
UrlChars == { "/", "a", "x", "?" }
Urls == { u \in StringsUpTo(UrlChars, MaxUrlLen) : u # << >> /\ u[1] = Slash }
\* Longer targets over the characters of the base paths: with two leading
\* slashes they are scheme-relative references with a host and a path.
Targets == { u \in StringsUpTo({ "/", "a" }, MaxTargetLen) : u # << >> /\ u[1] = Slash }
BaseChars == { "/", "a" }
Bases == StringsUpTo(BaseChars, MaxBaseLen)

\* ----------------------------------------------------------------- utils.ts
\* safeParseUrlPath, utils.ts 1-7: the pathname of new URL(value,
\* "http://localhost"), or undefined when the URL constructor throws. For a
\* target that starts with one slash the pathname is the target up to its
\* query. A target that starts with two or more slashes is scheme-relative:
\* the slashes are skipped, a host follows up to the next slash or "?", and
\* an empty host is a parse failure; the pathname is what follows the host,
\* "/" when nothing does.
safeParseUrlPath(value) ==
    IF Len(value) >= 2 /\ value[2] = Slash
    THEN LET hostAt == SkipSlashes(value, 1)
             pathAt == IndexOfAny(value, { "/", "?" }, hostAt)
             pathEnd == IndexOfAny(value, { "?" }, pathAt)
         IN IF pathAt = hostAt THEN Undefined
            ELSE IF pathEnd = pathAt THEN << Slash >>
            ELSE SubSeq(value, pathAt, pathEnd - 1)
    ELSE SubSeq(value, 1, IndexOfAny(value, { "?" }, 1) - 1)

\* normalizeBasePath, utils.ts 9-15
normalizeBasePath(b) ==
    IF b = << >> \/ b = << Slash >> THEN << >>
    ELSE LET collapsed ==
               CollapseSlashes(IF StartsWith(b, << Slash >>) THEN b
                               ELSE << Slash >> \o b)
         IN StripTrailingSlashes(collapsed)

\* createBasePathGuard, utils.ts 38-47: the guard made for base b, applied
\* to a pathname (possibly undefined).
GuardWithoutSlash(b, pathname) ==
    \/ normalizeBasePath(b) = << >>
    \/ pathname # Undefined /\ StartsWith(pathname, normalizeBasePath(b))

shouldHandlePath(b, pathname) ==
    LET normalizedBase == normalizeBasePath(b)
        withTrailingSlash == normalizedBase \o << Slash >>
    IN
    IF normalizedBase = << >> THEN TRUE
    ELSE /\ pathname # Undefined
         /\ pathname # << >>
         /\ \/ pathname = normalizedBase
            \/ StartsWith(pathname, withTrailingSlash)

\* createBasePathRewriter, utils.ts 17-36: the branch the rewriter made for
\* base b takes for a request with this pathname: "none" when there is no
\* rewriter (line 19-21), "equal" (27-28), "prefix" (29-30) or "fallback"
\* (31-33, the request is returned as it is).
RewriteBranch(b, pathname) ==
    LET normalizedBase == normalizeBasePath(b)
        prefixWithSlash == normalizedBase \o << Slash >>
    IN
    IF normalizedBase = << >> THEN "none"
    ELSE IF pathname = normalizedBase THEN "equal"
    ELSE IF StartsWith(pathname, prefixWithSlash) THEN "prefix"
    ELSE "fallback"

\* createBasePathRewriter, utils.ts 17-36: the pathname of the request the
\* rewriter made for base b returns for a request with this pathname.
RewriteStrippingSlash(b, pathname) ==
    IF RewriteBranch(b, pathname) \in { "equal", "prefix" }
    THEN Slice(pathname, Len(normalizeBasePath(b)) + 1)
    ELSE pathname

rewriteRequestForBase(b, pathname) ==
    LET normalizedBase == normalizeBasePath(b)
        prefixLength == Len(normalizedBase)
        branch == RewriteBranch(b, pathname)
    IN
    IF branch = "equal" THEN << Slash >>
    ELSE IF branch = "prefix"
         THEN IF Slice(pathname, prefixLength) = << >> THEN << Slash >>
              ELSE Slice(pathname, prefixLength)
    ELSE pathname

\* ------------------------------------------------------- index.ts, matching
\* Patterns: a regular expression that is a literal with optional ^ and $
\* anchors, or a glob that is a literal or "**".
Regex(start, end, lit) ==
    [kind |-> "regex", start |-> start, end |-> end, lit |-> lit]
Glob(lit) == [kind |-> "glob", start |-> TRUE, end |-> TRUE, lit |-> lit]

\* matchPattern, index.ts 75-80: RegExp.test for a regular expression,
\* minimatch(target, pattern, { dot: true }) for a string.
matchPattern(pattern, target) ==
    IF pattern.kind = "regex"
    THEN CASE pattern.start /\ pattern.end -> target = pattern.lit
           [] pattern.start -> StartsWith(target, pattern.lit)
           [] pattern.end -> EndsWith(target, pattern.lit)
           [] OTHER -> Includes(target, pattern.lit)
    ELSE pattern.lit = << "*", "*" >> \/ target = pattern.lit

\* createWorkerRequest, index.ts 142 and 160: the pathname of the Request
\* built from `http://${host}${req.url}`, the target up to its query.
RequestPathname(target) == SubSeq(target, 1, IndexOfAny(target, { "?" }, 1) - 1)

\* middleware, index.ts 307-315: a file of the public directory exists at
\* path.join(publicDirPath, pathname); path.join collapses repeated slashes.
IsPublicFile(dir, target) ==
    LET pathname == safeParseUrlPath(target) IN
    /\ dir.set
    /\ pathname # Undefined
    /\ pathname # << >>
    /\ CollapseSlashes(pathname) \in dir.files

\* middleware, index.ts 305-324: what the synchronous part of the middleware
\* decides for a request: "next" (pass through to the host) or "worker".
RouteIgnoringExclude(m, dir, patterns, b, target) ==
    IF target = << >> \/ m = "undefined" THEN "next"
    ELSE IF IsPublicFile(dir, target) THEN "next"
    ELSE IF ~shouldHandlePath(b, safeParseUrlPath(target)) THEN "next"
    ELSE "worker"

Route(m, dir, patterns, b, target) ==
    IF target = << >> \/ m = "undefined" THEN "next"
    ELSE IF IsPublicFile(dir, target) THEN "next"
    ELSE IF \E i \in 1..Len(patterns) : matchPattern(patterns[i], target)
         THEN "next"
    ELSE IF ~shouldHandlePath(b, safeParseUrlPath(target)) THEN "next"
    ELSE "worker"

\* shouldIgnorePath, index.ts 82-85. Paths are POSIX paths, which
\* normalizePath leaves as they are.
shouldIgnorePath(filePath, patterns) ==
    \E i \in 1..Len(patterns) : matchPattern(patterns[i], filePath)

\* watcher "all" handler, index.ts 295-301: the condition of the early
\* return, for the absolute output directory dir.
SkipsRebuild(patterns, dir, file) ==
    \/ shouldIgnorePath(file, patterns)
    \/ StartsWith(file, dir)

\* Changed files, and the options the watcher is checked under.
FileChars == { "/", "o", "s" }
WatchedFiles ==
    { f \in StringsUpTo(FileChars, MaxFileLen) : f # << >> /\ f[1] = Slash }
SourceFile == << "/", "s" >>
DefaultOutDir == << "/", "o" >>
DefaultIgnoreWatching == << Regex(FALSE, FALSE, << "/", "." >>) >>
IgnoreLists ==
    { << >>,
      << Regex(FALSE, FALSE, << "s", "s" >>), Glob(<< "/", "s", "o" >>) >> }

\* ------------------------------------------------- index.ts, the response
\* A response: its status, the headers the middleware reads or changes
\* (content-type as its media type followed by its parameters, absent when
\* empty; content-security-policy as its list of source expressions, each
\* with the nonce it carries or "none"; whether content-length is there),
\* whether it has a body (response.body is not null) and the body as a list
\* of parts.
Text == [tag |-> "text", nonce |-> "none"]
Script(nonce) == [tag |-> "script", nonce |-> nonce]
Source(nonce) == [nonce |-> nonce]
NoResponse ==
    [status |-> 0, contentType |-> << >>, csp |-> << >>,
     contentLength |-> FALSE, hasBody |-> FALSE, body |-> << >>]

\* new Response(body, { status }) with a body that is not null throws a
\* TypeError for a null body status (index.ts 174-177, Fetch standard).
NullBodyStatuses == { 101, 103, 204, 205, 304 }

ContentTypes ==
    { << >>, << "text/html" >>, << "text/html", "charset=utf-8" >>,
      << "application/json" >> }
Policies ==
    { << >>, << Source("none") >>, << Source("none"), Source("abc123") >> }
Responses ==
    { r \in [status : { 200, 304 }, contentType : ContentTypes,
             csp : Policies, contentLength : BOOLEAN, hasBody : BOOLEAN,
             body : { << >>, << Text >> }] :
        /\ ~r.hasBody => r.body = << >>
        /\ r.status \in NullBodyStatuses => ~r.hasBody }
\* a response without a body that is not HTML
EmptyResponse ==
    [status |-> 200, contentType |-> << >>, csp |-> << >>,
     contentLength |-> FALSE, hasBody |-> FALSE, body |-> << >>]

\* contentType?.match(/^text\/html/), index.ts 333-334
MatchesHtml(contentType) ==
    contentType # << >> /\ contentType[1] = "text/html"

\* middleware, index.ts 330-334: the response goes through the injector
Injects(inject, resp) == inject /\ MatchesHtml(resp.contentType)

\* .match(/'nonce-([^']+)'/)?.[1], index.ts 336-339: the nonce of the first
\* source expression that carries one, "none" when there is none
RECURSIVE NonceOf(_)
NonceOf(csp) ==
    IF csp = << >> THEN "none"
    ELSE IF Head(csp).nonce # "none" THEN Head(csp).nonce
    ELSE NonceOf(Tail(csp))

\* injectStringToResponse, index.ts 167-178, when the constructor returns
injectStringToResponse(resp, content) ==
    [resp EXCEPT !.contentLength = FALSE, !.hasBody = TRUE,
                 !.body = resp.body \o content]

\* ------------------------------------------------ utils.ts, on their own
\* A request: the pathname of its URL, its method, headers and body.
Pathnames ==
    { u \in StringsUpTo({ "/", "a", "x" }, MaxUrlLen) :
        u # << >> /\ u[1] = Slash }
NoRequest == [pathname |-> << >>, method |-> "", headers |-> "", body |-> ""]
Requests ==
    { [pathname |-> u, method |-> "GET", headers |-> "h", body |-> ""] :
        u \in Pathnames } \cup
    { [pathname |-> u, method |-> "POST", headers |-> "hh", body |-> "b"] :
        u \in Pathnames }

\* createBasePathRewriter, utils.ts 24-35: the request the rewriter made for
\* base b returns; new Request(url, request) takes method, headers and body
\* from the request.
RewrittenRequest(b, req) ==
    IF RewriteBranch(b, req.pathname) \in { "equal", "prefix" }
    THEN [req EXCEPT !.pathname = rewriteRequestForBase(b, req.pathname)]
    ELSE req

\* Configurations the middleware is checked under.
ExcludeLists ==
    { << >>,
      << Regex(TRUE, TRUE, << "/", "x" >>) >>,
      << Regex(FALSE, TRUE, << "x" >>), Glob(<< "/", "a" >>) >>,
      << Regex(TRUE, FALSE, << "/", "a", "/" >>),
         Regex(FALSE, FALSE, << "?" >>) >> }

PublicDirs ==
    { [set |-> FALSE, files |-> {}],
      [set |-> TRUE, files |-> { << "/", "x" >>, << "/", "a", "/", "a" >> }] }

\* ------------------------------------------------- the code, as operators
\* rebuildWorker, lines 231-235: the call goes on to the bundler only when
\* no build is in progress; otherwise it sets buildQueued and returns.
ConcurrentStartsBuild(inProgress) == TRUE
StartsBuild(inProgress) == ~inProgress

\* rebuildWorker, line 265: the finally block starts a follow-up rebuild
\* when one was queued.
DroppedFollowUp(queued) == FALSE
FollowUp(queued) == queued

\* rebuildWorker, line 264: the value the finally block gives
\* buildInProgress, whether the try block threw or not.
StickyFlag(threw) == threw
ClearedFlag(threw) == FALSE

\* rebuildWorker, lines 263-269: how the promise of a call settles once its
\* innermost frame is over. `stack` holds, outermost first, whether the try
\* block of each frame suspended in its finally block threw; `rejected` is
\* the outcome of the frame that just returned. A finally block that ends
\* normally rethrows the exception of its try block; one that ends with a
\* rejected `await rebuildWorker(server)` throws that rejection instead.
RECURSIVE SwallowingSettle(_, _)
SwallowingSettle(stack, rejected) ==
    IF stack = << >> THEN rejected
    ELSE SwallowingSettle(SubSeq(stack, 1, Len(stack) - 1), rejected)

RECURSIVE Settle(_, _)
Settle(stack, rejected) ==
    IF stack = << >> THEN rejected
    ELSE Settle(SubSeq(stack, 1, Len(stack) - 1),
                rejected \/ stack[Len(stack)])

\* rebuildWorker, lines 257-261: the emulator is constructed only when the
\* closure holds none.
AlwaysNew(m) == TRUE
NeedsNew(m) == m = "undefined"

\* rebuildWorker, lines 247-262: full-reload messages sent by a rebuild body
\* whose try block ended by throwing (threw) or by reaching its end.
ReloadAlways(threw) == 1
ReloadsSent(threw) == IF threw THEN 0 ELSE 1

\* close handler, lines 349-353: dispose() is called when an instance exists.
NeverDisposes(m) == FALSE
Disposes(m) == m # "undefined"

\* scheduleRebuild, lines 222-228: clearTimeout on the handle kept in
\* rebuildTimer (no effect on a timer that has fired), then setTimeout for
\* the debounce interval under the fresh handle h.
ClearTimeout(ts, h) ==
    IF h # 0 /\ ts[h].st = "pending" THEN [ts EXCEPT ![h].st = "cleared"]
    ELSE ts

ThrottledTimers(ts, rt, h, d) ==
    [ts EXCEPT ![h] = [st |-> "pending", left |-> d]]

ScheduledTimers(ts, rt, h, d) ==
    [ClearTimeout(ts, rt) EXCEPT ![h] = [st |-> "pending", left |-> d]]

\* -------------------------------------------------------------------- Init
\* The state after miniflareDevServer(options) has returned the plugin
\* object (lines 207-220): no emulator, no timer, both flags false.
InitBuild ==
    /\ mf = "undefined"
    /\ rebuildTimer = 0
    /\ buildInProgress = FALSE
    /\ buildQueued = FALSE
    /\ phase = "constructed"
    /\ closed = FALSE
    /\ timers = [h \in Handles |-> [st |-> "unset", left |-> 0]]
    /\ nSched = 0
    /\ call = [c \in Calls |-> NoCall]
    /\ artifact = 0
    /\ mfLoaded = 0
    /\ mfDisposed = FALSE
    /\ sinceSched = reloadDebounceMs
    /\ gap = [h \in Handles |-> 0]
    /\ started = 0
    /\ completed = 0
    /\ windowCalls = 0
    /\ lastWindow = 0
    /\ lastThrew = FALSE
    /\ trigger = "none"
    /\ constructed = 0
    /\ disposeCalls = 0
    /\ reloads = 0
    /\ succeeded = 0
    /\ reloadFor = 0
    /\ builtAfter = [h \in Handles |-> FALSE]
    /\ lastFile = << >>
    /\ lastScheduled = FALSE

\* No request has reached the middleware.
InitRequest ==
    /\ url = << >>
    /\ mwPc = "idle"
    /\ received = 0
    /\ workerPath = << >>
    /\ convertThrew = FALSE
    /\ response = NoResponse
    /\ written = NoResponse
    /\ threwAt = "none"

\* The helpers of utils.ts are not applied on their own.
InitUtilOff ==
    /\ utilPc = "off"
    /\ guardInput = Undefined
    /\ rewriterInput = NoRequest
    /\ handles = FALSE
    /\ rewritten = NoRequest

\* The default options of what a specification does not vary.
DefaultWatch ==
    /\ outDir = DefaultOutDir
    /\ ignoreWatching = DefaultIgnoreWatching
DefaultRouting ==
    /\ base = << >>
    /\ excludePatterns = << >>
    /\ publicDir = [set |-> TRUE, files |-> {}]

\* The rebuild pipeline is checked under the default options: no base, no
\* exclude pattern that matters to it, publicDir as resolved by the host.
Init ==
    /\ reloadDebounceMs \in Debounces
    /\ InitBuild
    /\ InitRequest
    /\ InitUtilOff
    /\ DefaultRouting
    /\ DefaultWatch
    /\ injectClientScript = TRUE

\* The middleware is checked under every configuration of the bounded sets.
InitMw ==
    /\ reloadDebounceMs = 1
    /\ InitBuild
    /\ InitRequest
    /\ InitUtilOff
    /\ DefaultWatch
    /\ injectClientScript = TRUE
    /\ base \in Bases
    /\ excludePatterns \in ExcludeLists
    /\ publicDir \in PublicDirs

\* ----------------------------------------------------------- rebuildWorker
\* Entry of a top-level call c of rebuildWorker (lines 230-247): either the
\* early return that queues, or the synchronous part up to `await build`.
Enter(c, why) ==
    IF StartsBuild(buildInProgress)
    THEN /\ buildInProgress' = TRUE
         /\ call' = [call EXCEPT ![c] = [pc |-> "build", stack |-> << >>,
                                         bn |-> started + 1, builds |-> 1,
                                         failed |-> FALSE]]
         /\ started' = started + 1
         /\ trigger' = why
         /\ builtAfter' = [h \in Handles |-> h <= nSched]
         /\ UNCHANGED << buildQueued, windowCalls >>
    ELSE /\ buildQueued' = TRUE
         /\ call' = [call EXCEPT ![c] = [NoCall EXCEPT !.pc = "resolved"]]
         /\ windowCalls' = windowCalls + 1
         /\ UNCHANGED << buildInProgress, started, trigger, builtAfter >>

\* The finally block of the running frame of call c (lines 263-269), whose
\* try block threw or not, with everything that follows without suspension:
\* the recursive call up to its `await build`, or the settling of the
\* promises of the suspended frames and of configureServer's await.
Finally(c, threw) ==
    LET flag == ClearedFlag(threw)
        follow == FollowUp(buildQueued)
        again == follow /\ StartsBuild(flag)
    IN
    /\ completed' = completed + 1
    /\ lastWindow' = windowCalls
    /\ windowCalls' = 0
    /\ lastThrew' = threw
    /\ IF again
       THEN /\ buildQueued' = FALSE
            /\ buildInProgress' = TRUE
            /\ call' = [call EXCEPT ![c] =
                          [pc |-> "build",
                           stack |-> Append(call[c].stack, threw),
                           bn |-> started + 1,
                           builds |-> call[c].builds + 1,
                           failed |-> call[c].failed \/ threw]]
            /\ started' = started + 1
            /\ trigger' = "queued"
            /\ builtAfter' = [h \in Handles |-> h <= nSched]
            /\ UNCHANGED phase
       ELSE \* no follow-up, or a nested call that queued itself and returned
            /\ buildQueued' = buildQueued
            /\ buildInProgress' = flag
            /\ LET rejected == Settle(call[c].stack, threw) IN
               /\ call' = [call EXCEPT ![c] =
                             [@ EXCEPT !.pc = IF rejected THEN "rejected"
                                              ELSE "resolved",
                                       !.stack = Append(@, threw),
                                       !.failed = @ \/ threw]]
               /\ phase' = IF c # 0 THEN phase
                           ELSE IF rejected THEN "failed" ELSE "serving"
            /\ UNCHANGED << started, trigger, builtAfter >>

\* The end of the try block of the running frame of call c (lines 247-262):
\* the full-reload message when the block reached its end, then the finally
\* block.
TryEnd(c, threw) ==
    /\ reloads' = reloads + ReloadsSent(threw)
    /\ reloadFor' = IF ReloadsSent(threw) > 0 THEN call[c].bn ELSE reloadFor
    /\ succeeded' = IF threw THEN succeeded ELSE succeeded + 1
    /\ Finally(c, threw)

\* ----------------------------------------------------------------- actions
\* configureServer, line 293: the initial `await rebuildWorker(server)`.
\* The watcher handler, the middleware and the close handler (lines
\* 294-353) are installed when that promise resolves; when it rejects
\* configureServer rejects and none of them ever is.
ConfigureServer ==
    /\ phase = "constructed"
    /\ phase' = "starting"
    /\ Enter(0, "initial")
    /\ UNCHANGED << mf, rebuildTimer, reloadDebounceMs, closed, timers, nSched,
                    artifact, mfLoaded, mfDisposed, sinceSched, gap, completed,
                    lastWindow, lastThrew, constructed, disposeCalls, reloads,
                    succeeded, reloadFor >>
    /\ UNCHANGED << mwVars, watchVars, utilVars >>

\* configureServer, lines 293-304: the watcher handler and the middleware
\* are registered after `await rebuildWorker(server)`, so they run only
\* once the initial build has resolved.
RegisteredEarly(ph) == ph \in { "starting", "serving" }
Registered(ph) == ph = "serving"

\* scheduleRebuild(server), lines 222-228.
ScheduleRebuild ==
    LET h == nSched + 1 IN
    /\ timers' = ScheduledTimers(timers, rebuildTimer, h, reloadDebounceMs)
    /\ rebuildTimer' = h
    /\ nSched' = h
    /\ gap' = [gap EXCEPT ![h] = sinceSched]
    /\ sinceSched' = 0

\* watcher "all" handler, lines 294-303, registered once the initial build
\* has resolved: it returns early for a file to skip and calls
\* scheduleRebuild for any other.
FileChange(file) ==
    /\ Registered(phase)
    /\ ~closed
    /\ nSched < MaxSched
    /\ lastFile' = file
    /\ IF SkipsRebuild(ignoreWatching, outDir, file)
       THEN /\ lastScheduled' = FALSE
            /\ UNCHANGED << timers, rebuildTimer, nSched, gap, sinceSched >>
       ELSE /\ lastScheduled' = TRUE
            /\ ScheduleRebuild
    /\ UNCHANGED << mf, buildInProgress, buildQueued, reloadDebounceMs, phase,
                    closed, call, artifact, mfLoaded, mfDisposed, started,
                    completed, windowCalls, lastWindow, lastThrew, trigger,
                    constructed, disposeCalls, reloads, succeeded, reloadFor,
                    builtAfter >>
    /\ UNCHANGED << mwVars, utilVars >>

\* One tick of the clock: every pending timer gets closer to its expiry.
Tick ==
    /\ \/ sinceSched < reloadDebounceMs
       \/ \E h \in Handles : timers[h].st = "pending" /\ timers[h].left > 0
    /\ timers' = [h \in Handles |->
                    IF timers[h].st = "pending" /\ timers[h].left > 0
                    THEN [timers[h] EXCEPT !.left = @ - 1]
                    ELSE timers[h]]
    /\ sinceSched' = Min(sinceSched + 1, reloadDebounceMs)
    /\ UNCHANGED << mf, rebuildTimer, buildInProgress, buildQueued,
                    reloadDebounceMs, phase, closed, nSched, call, artifact,
                    mfLoaded, mfDisposed, gap, started, completed, windowCalls,
                    lastWindow, lastThrew, trigger, constructed, disposeCalls,
                    reloads, succeeded, reloadFor, builtAfter >>
    /\ UNCHANGED << mwVars, watchVars, utilVars >>

\* The callback of timer h, lines 225-227, once the timer has expired:
\* `void rebuildWorker(server)`.
TimerFire(h) ==
    /\ timers[h].st = "pending"
    /\ timers[h].left = 0
    /\ timers' = [timers EXCEPT ![h].st = "fired"]
    /\ Enter(h, "timer")
    /\ UNCHANGED << mf, rebuildTimer, reloadDebounceMs, phase, closed, nSched,
                    artifact, mfLoaded, mfDisposed, sinceSched, gap, completed,
                    lastWindow, lastThrew, constructed, disposeCalls, reloads,
                    succeeded, reloadFor >>
    /\ UNCHANGED << mwVars, watchVars, utilVars >>

\* `await build(buildConfig)` of call c resolves (line 247): worker.mjs is
\* on disk. Lines 248-262 follow: with no emulator yet, new Miniflare(...)
\* either returns the instance (ok) or throws; with one, the frame suspends
\* at `await mf.setOptions(...)`.
BundlerResolves(c) ==
    /\ call[c].pc = "build"
    /\ artifact' = call[c].bn
    /\ IF NeedsNew(mf)
       THEN \E ok \in BOOLEAN :
              /\ mf' = IF ok THEN "instance" ELSE mf
              /\ mfLoaded' = IF ok THEN call[c].bn ELSE mfLoaded
              /\ mfDisposed' = IF ok THEN FALSE ELSE mfDisposed
              /\ constructed' = IF ok THEN constructed + 1 ELSE constructed
              /\ TryEnd(c, ~ok)
       ELSE /\ call' = [call EXCEPT ![c].pc = "setOptions"]
            /\ UNCHANGED << mf, mfLoaded, mfDisposed, constructed,
                            buildInProgress, buildQueued, phase, started,
                            completed, windowCalls, lastWindow, lastThrew,
                            trigger, reloads, succeeded, reloadFor,
                            builtAfter >>
    /\ UNCHANGED << rebuildTimer, reloadDebounceMs, closed, timers, nSched,
                    sinceSched, gap, disposeCalls >>
    /\ UNCHANGED << mwVars, watchVars, utilVars >>

\* `await build(buildConfig)` of call c rejects (line 247).
BundlerRejects(c) ==
    /\ call[c].pc = "build"
    /\ TryEnd(c, TRUE)
    /\ UNCHANGED << mf, rebuildTimer, reloadDebounceMs, closed, timers, nSched,
                    artifact, mfLoaded, mfDisposed, sinceSched, gap,
                    constructed, disposeCalls >>
    /\ UNCHANGED << mwVars, watchVars, utilVars >>

\* `await mf.setOptions(mfOptions)` of call c resolves (line 260): the
\* emulator now runs the artifact on disk; line 262 sends the full-reload.
SetOptionsResolves(c) ==
    /\ call[c].pc = "setOptions"
    /\ mfLoaded' = artifact
    /\ TryEnd(c, FALSE)
    /\ UNCHANGED << mf, rebuildTimer, reloadDebounceMs, closed, timers, nSched,
                    artifact, mfDisposed, sinceSched, gap, constructed,
                    disposeCalls >>
    /\ UNCHANGED << mwVars, watchVars, utilVars >>

\* `await mf.setOptions(mfOptions)` of call c rejects (line 260).
SetOptionsRejects(c) ==
    /\ call[c].pc = "setOptions"
    /\ TryEnd(c, TRUE)
    /\ UNCHANGED << mf, rebuildTimer, reloadDebounceMs, closed, timers, nSched,
                    artifact, mfLoaded, mfDisposed, sinceSched, gap,
                    constructed, disposeCalls >>
    /\ UNCHANGED << mwVars, watchVars, utilVars >>

\* The "close" event of server.httpServer, lines 349-353.
Close ==
    /\ phase = "serving"
    /\ ~closed
    /\ closed' = TRUE
    /\ IF Disposes(mf)
       THEN /\ mfDisposed' = TRUE
            /\ disposeCalls' = disposeCalls + 1
       ELSE UNCHANGED << mfDisposed, disposeCalls >>
    /\ UNCHANGED << mf, rebuildTimer, buildInProgress, buildQueued,
                    reloadDebounceMs, phase, timers, nSched, call, artifact,
                    mfLoaded, sinceSched, gap, started, completed, windowCalls,
                    lastWindow, lastThrew, trigger, constructed, reloads,
                    succeeded, reloadFor, builtAfter >>
    /\ UNCHANGED << mwVars, watchVars, utilVars >>

\* A request reaches the middleware (index.ts 304-324), which is installed
\* once the initial build has resolved; it runs up to `next()` or up to
\* `await createWorkerRequest(req)`.
Arrive(target) ==
    /\ Registered(phase)
    /\ ~closed
    /\ mwPc = "idle"
    /\ url' = target
    /\ mwPc' = IF Route(mf, publicDir, excludePatterns, base, target) = "next"
               THEN "passed" ELSE "convert"
    /\ UNCHANGED << received, workerPath, convertThrew, response, written,
                    threwAt >>
    /\ UNCHANGED buildVars
    /\ UNCHANGED << configVars, utilVars >>

\* `await createWorkerRequest(req)` resolves (index.ts 325); the request is
\* rewritten for the base (326-328) and handed to mf.dispatchFetch (329).
ConvertResolves ==
    /\ mwPc = "convert"
    /\ workerPath' = rewriteRequestForBase(base, RequestPathname(url))
    /\ received' = received + 1
    /\ mwPc' = "dispatch"
    /\ UNCHANGED << url, convertThrew, response, written, threwAt >>
    /\ UNCHANGED buildVars
    /\ UNCHANGED << configVars, utilVars >>

\* `await createWorkerRequest(req)` rejects: the Host header makes the URL
\* invalid, or reading the body fails; the catch block calls next(error)
\* (index.ts 345-347).
ConvertRejects ==
    /\ mwPc = "convert"
    /\ convertThrew' = TRUE
    /\ threwAt' = "convert"
    /\ mwPc' = "errored"
    /\ UNCHANGED << url, received, workerPath, response, written >>
    /\ UNCHANGED buildVars
    /\ UNCHANGED << configVars, utilVars >>

\* sendResponse, index.ts 180-202: status and headers are copied to the
\* host's response; a body is piped to it, and without one it is ended.
sendResponse(resp) ==
    /\ written' = resp
    /\ mwPc' = IF resp.hasBody THEN "streaming" ELSE "sent"

\* `await mf.dispatchFetch(request)` resolves with resp (index.ts 329). An
\* HTML response goes to the injector when injection is on, up to
\* `await response.text()` (330-341, 171); any other is sent (344).
DispatchResolves(resp) ==
    /\ mwPc = "dispatch"
    /\ response' = resp
    /\ IF Injects(injectClientScript, resp)
       THEN /\ mwPc' = "text"
            /\ UNCHANGED written
       ELSE sendResponse(resp)
    /\ UNCHANGED << url, received, workerPath, convertThrew, threwAt >>
    /\ UNCHANGED buildVars
    /\ UNCHANGED << configVars, utilVars >>

\* `await mf.dispatchFetch(request)` rejects: next(error) (index.ts 345-347).
DispatchRejects ==
    /\ mwPc = "dispatch"
    /\ threwAt' = "dispatch"
    /\ mwPc' = "errored"
    /\ UNCHANGED << url, received, workerPath, convertThrew, response,
                    written >>
    /\ UNCHANGED buildVars
    /\ UNCHANGED << configVars, utilVars >>

\* `await response.text()` resolves (index.ts 171): the injector makes the
\* new response (172-177) and it is sent (344); the constructor throws for
\* a null body status, and the catch block calls next(error) (345-347).
TextResolves ==
    /\ mwPc = "text"
    /\ IF response.status \in NullBodyStatuses
       THEN /\ threwAt' = "inject"
            /\ mwPc' = "errored"
            /\ UNCHANGED written
       ELSE /\ sendResponse(injectStringToResponse(
                   response, << Script(NonceOf(response.csp)) >>))
            /\ UNCHANGED threwAt
    /\ UNCHANGED << url, received, workerPath, convertThrew, response >>
    /\ UNCHANGED buildVars
    /\ UNCHANGED << configVars, utilVars >>

\* `await response.text()` rejects, the body of the response fails while
\* it is read: next(error) (index.ts 345-347).
TextRejects ==
    /\ mwPc = "text"
    /\ response.hasBody
    /\ threwAt' = "text"
    /\ mwPc' = "errored"
    /\ UNCHANGED << url, received, workerPath, convertThrew, response,
                    written >>
    /\ UNCHANGED buildVars
    /\ UNCHANGED << configVars, utilVars >>

\* The stream piped to the host's response (index.ts 197-198) ends.
StreamEnds ==
    /\ mwPc = "streaming"
    /\ mwPc' = "sent"
    /\ UNCHANGED << url, received, workerPath, convertThrew, response,
                    written, threwAt >>
    /\ UNCHANGED buildVars
    /\ UNCHANGED << configVars, utilVars >>

\* The stream piped to the host's response (index.ts 197-198) fails after
\* sendResponse has returned: the handler is over, its catch block is not
\* there any more and the stream has no listener for its 'error' event,
\* which Node raises as an uncaught exception.
StreamErrors ==
    /\ mwPc = "streaming"
    /\ threwAt' = "send"
    /\ mwPc' = "crashed"
    /\ UNCHANGED << url, received, workerPath, convertThrew, response,
                    written >>
    /\ UNCHANGED buildVars
    /\ UNCHANGED << configVars, utilVars >>

Next ==
    \/ ConfigureServer
    \/ FileChange(SourceFile)
    \/ Tick
    \/ \E h \in Handles : TimerFire(h)
    \/ \E c \in Calls : BundlerResolves(c)
    \/ \E c \in Calls : BundlerRejects(c)
    \/ \E c \in Calls : SetOptionsResolves(c)
    \/ \E c \in Calls : SetOptionsRejects(c)
    \/ Close

Spec == Init /\ [][Next]_vars

\* The handler of the request is over; the middleware takes the next one.
Done ==
    /\ mwPc \in { "passed", "errored", "sent" }
    /\ mwPc' = "idle"
    /\ url' = << >>
    /\ received' = 0
    /\ workerPath' = << >>
    /\ convertThrew' = FALSE
    /\ response' = NoResponse
    /\ written' = NoResponse
    /\ threwAt' = "none"
    /\ UNCHANGED buildVars
    /\ UNCHANGED << configVars, utilVars >>

\* The routing of requests: start-up (the initial build), then the
\* middleware handling one request after another, for every target and
\* every configuration of the bounded sets. Rebuilds after start-up change
\* nothing the routing reads: mf stays the instance. The listener may close.
NextMw ==
    \/ ConfigureServer
    \/ BundlerResolves(0)
    \/ BundlerRejects(0)
    \/ \E target \in Urls : Arrive(target)
    \/ ConvertResolves
    \/ ConvertRejects
    \/ DispatchResolves(EmptyResponse)
    \/ DispatchRejects
    \/ Done
    \/ Close

SpecMw == InitMw /\ [][NextMw]_vars

\* The routing for every base path and the longer targets, under the
\* default exclude list and without a public directory.
InitBase ==
    /\ reloadDebounceMs = 1
    /\ InitBuild
    /\ InitRequest
    /\ InitUtilOff
    /\ DefaultWatch
    /\ injectClientScript = TRUE
    /\ base \in Bases
    /\ excludePatterns = << >>
    /\ publicDir = [set |-> FALSE, files |-> {}]

NextBase ==
    \/ ConfigureServer
    \/ BundlerResolves(0)
    \/ BundlerRejects(0)
    \/ \E target \in Targets : Arrive(target)
    \/ ConvertResolves
    \/ ConvertRejects
    \/ DispatchResolves(EmptyResponse)
    \/ DispatchRejects
    \/ Done

SpecBase == InitBase /\ [][NextBase]_vars

\* The rebuild pipeline together with requests for "/".
RootUrl == << Slash >>
NextAll ==
    \/ Next
    \/ Arrive(RootUrl)
    \/ ConvertResolves
    \/ ConvertRejects
    \/ DispatchResolves(EmptyResponse)
    \/ DispatchRejects
    \/ Done

SpecAll == Init /\ [][NextAll]_vars

\* The responses: requests for "/" under the default options, injection on
\* or off, and every response of the bounded set.
InitResp ==
    /\ reloadDebounceMs = 1
    /\ InitBuild
    /\ InitRequest
    /\ InitUtilOff
    /\ DefaultRouting
    /\ DefaultWatch
    /\ injectClientScript \in BOOLEAN

NextResp ==
    \/ ConfigureServer
    \/ BundlerResolves(0)
    \/ BundlerRejects(0)
    \/ Arrive(RootUrl)
    \/ ConvertResolves
    \/ ConvertRejects
    \/ \E resp \in Responses : DispatchResolves(resp)
    \/ DispatchRejects
    \/ TextResolves
    \/ TextRejects
    \/ StreamEnds
    \/ StreamErrors
    \/ Done

SpecResp == InitResp /\ [][NextResp]_vars

\* The watcher: the rebuild pipeline with every changed file and ignore
\* list of the bounded sets.
InitWatch ==
    /\ reloadDebounceMs = 1
    /\ InitBuild
    /\ InitRequest
    /\ InitUtilOff
    /\ DefaultRouting
    /\ injectClientScript = TRUE
    /\ outDir = DefaultOutDir
    /\ ignoreWatching \in IgnoreLists

NextWatch ==
    \/ ConfigureServer
    \/ \E file \in WatchedFiles : FileChange(file)
    \/ Tick
    \/ \E h \in Handles : TimerFire(h)
    \/ \E c \in Calls :
          \/ BundlerResolves(c)
          \/ BundlerRejects(c)
          \/ SetOptionsResolves(c)
          \/ SetOptionsRejects(c)
    \/ Close

SpecWatch == InitWatch /\ [][NextWatch]_vars

\* The helpers of utils.ts on their own: the guard and the rewriter made
\* for every base, applied to every pathname and request of the bounded
\* sets.
InitUtil ==
    /\ reloadDebounceMs = 1
    /\ InitBuild
    /\ InitRequest
    /\ DefaultWatch
    /\ injectClientScript = TRUE
    /\ excludePatterns = << >>
    /\ publicDir = [set |-> FALSE, files |-> {}]
    /\ base \in Bases
    /\ utilPc = "drawn"
    /\ guardInput \in Pathnames \cup { Undefined, << >> }
    /\ rewriterInput \in Requests
    /\ rewriterInput.pathname =
          IF guardInput \in Pathnames THEN guardInput ELSE << Slash >>
    /\ handles = FALSE
    /\ rewritten = NoRequest

\* shouldHandlePath(pathname), the guard of createBasePathGuard(base)
ApplyGuard ==
    /\ utilPc = "drawn"
    /\ handles' = shouldHandlePath(base, guardInput)
    /\ utilPc' = "guarded"
    /\ UNCHANGED << guardInput, rewriterInput, rewritten >>
    /\ UNCHANGED << buildVars, mwVars >>

\* rewriteRequestForBase(request), the rewriter of
\* createBasePathRewriter(base), when there is one
ApplyRewriter ==
    /\ utilPc = "guarded"
    /\ RewriteBranch(base, rewriterInput.pathname) # "none"
    /\ rewritten' = RewrittenRequest(base, rewriterInput)
    /\ utilPc' = "rewritten"
    /\ UNCHANGED << guardInput, rewriterInput, handles >>
    /\ UNCHANGED << buildVars, mwVars >>

NextUtil ==
    \/ ApplyGuard
    \/ ApplyRewriter

SpecUtil == InitUtil /\ [][NextUtil]_vars

\* Fairness of the environment the rebuild pipeline runs in: the clock
\* advances, an expired timer's callback runs, and every bundler invocation
\* and emulator reconfiguration terminates (resolving or rejecting).
Fairness ==
    /\ WF_vars(Tick)
    /\ \A h \in Handles : WF_vars(TimerFire(h))
    /\ \A c \in Calls : WF_vars(BundlerResolves(c) \/ BundlerRejects(c))
    /\ \A c \in Calls : WF_vars(SetOptionsResolves(c) \/ SetOptionsRejects(c))

SpecLive == Init /\ [][Next]_vars /\ Fairness

\* ------------------------------------------------------------------ claims
Fired(h) == timers[h].st = "pending" /\ timers'[h].st = "fired"
BodyEnds == completed' = completed + 1

\* C1: under every interleaving of watcher events, timer callbacks, rebuild
\* calls and build completions (resolved or rejected), at most one bundler
\* invocation is executing at any moment.
C1_OneBundlerAtATime == Cardinality(Bundling) <= 1

\* a rebuildWorker call arrived while a bundler invocation was executing
C1_Witness ==
    /\ Cardinality(Bundling) = 1
    /\ buildQueued
    /\ \E h \in Handles : call[h].pc = "resolved" /\ call[h].builds = 0

\* C2: the k >= 1 rebuildWorker calls made while a build is in flight each
\* return without invoking the bundler, and together they result in exactly
\* one further bundler invocation, started when the in-flight rebuild has
\* completed and not before.
C2_QueuedCallsCoalesce ==
    /\ [](buildInProgress => (buildQueued <=> windowCalls >= 1))
    /\ [][/\ windowCalls' = windowCalls + 1 =>
               /\ started' = started
               /\ Bundling' = Bundling
               /\ \A c \in Calls :
                    call[c].pc = "idle" /\ call'[c].pc # "idle" =>
                        call'[c].pc = "resolved" /\ call'[c].builds = 0
          /\ windowCalls >= 1 /\ ~BodyEnds => started' = started
          /\ windowCalls >= 1 /\ BodyEnds =>
               /\ started' = started + 1
               /\ Cardinality(Bundling') = 1
               /\ \A c \in Bundling' : call'[c].bn = started'
               /\ Updating' = {}
               /\ windowCalls' = 0
               /\ ~buildQueued'
         ]_vars

\* two calls were queued during one build and one follow-up was started
C2_Witness == lastWindow >= 2 /\ trigger = "queued" /\ started = completed + 1

\* C3: of n >= 1 scheduleRebuild calls, each made less than the debounce
\* interval after the previous one, only the last one's timer ever fires; it
\* fires no earlier than the debounce interval after that last call, and
\* with no build in progress it starts exactly one bundler invocation.
C3_DebounceCoalesces ==
    /\ [](\A h \in Handles :
            h < nSched /\ gap[h + 1] < reloadDebounceMs =>
                timers[h].st = "cleared" /\ call[h].pc = "idle")
    /\ [][\A h \in Handles :
            Fired(h) =>
              /\ h = nSched
              /\ sinceSched >= reloadDebounceMs
              /\ ~buildInProgress =>
                   /\ started' = started + 1
                   /\ call'[h].builds = 1
                   /\ Bundling' = {h}
         ]_vars

\* three calls within one debounce interval, then exactly one build
C3_Witness ==
    /\ nSched >= 3
    /\ gap[2] + gap[3] < reloadDebounceMs
    /\ timers[1].st = "cleared"
    /\ timers[2].st = "cleared"
    /\ timers[3].st = "fired"
    /\ call[3].builds = 1
    /\ started = 2

\* C4: with timers firing and builds terminating, every scheduleRebuild
\* call that is not superseded by a later one is eventually followed by a
\* bundler invocation that starts after the call, also when its timer fires
\* while another build is in flight.
C4_NoRequestDropped ==
    \A h \in Handles :
        [](timers[h].st = "pending" =>
             <>(timers[h].st = "cleared" \/ builtAfter[h]))

\* a request whose timer fired during a build, and the follow-up it caused
C4_Witness ==
    \E h \in Handles :
        /\ timers[h].st = "fired"
        /\ call[h].pc = "resolved"
        /\ call[h].builds = 0
        /\ builtAfter[h]
        /\ trigger = "queued"

\* C5: when a rebuild body fails (bundler or emulator update), the flag is
\* cleared; a rebuild queued meanwhile runs, exactly once; with nothing
\* queued no bundler invocation starts, and none ever starts other than by
\* configureServer, by a timer callback, or as the follow-up of queued calls.
C5_FailureDoesNotWedge ==
    [][/\ BodyEnds /\ lastThrew' =>
            IF buildQueued
            THEN /\ started' = started + 1
                 /\ Cardinality(Bundling') = 1
                 /\ buildInProgress'
                 /\ ~buildQueued'
            ELSE /\ started' = started
                 /\ Bundling' = {}
                 /\ ~buildInProgress'
       /\ started' # started =>
            \/ phase = "constructed"
            \/ \E h \in Handles : Fired(h)
            \/ BodyEnds /\ windowCalls >= 1
      ]_vars

\* a failed build with a queued request, whose follow-up has run
C5_Witness ==
    \E c \in Calls :
        /\ Settled(c)
        /\ Len(call[c].stack) = 2
        /\ call[c].stack[1]
        /\ ~buildInProgress
        /\ ~buildQueued

\* C6: a rebuildWorker call in which any rebuild body failed, the first or a
\* follow-up run from a finally block, ends rejected, never resolved.
C6_FailurePropagates ==
    \A c \in Calls :
        /\ call[c].pc = "resolved" => ~call[c].failed
        /\ Settled(c) /\ call[c].failed => call[c].pc = "rejected"

\* the first build failed, the queued follow-up succeeded
C6_Witness ==
    \E c \in Calls : call[c].pc = "rejected" /\ call[c].stack = << TRUE, FALSE >>

\* C7: every successful rebuild sends exactly one full-reload, after the
\* emulator has been created or reconfigured with that build's artifact; a
\* rebuild whose bundler or emulator update failed sends none.
C7_ReloadOnSuccessOnly ==
    /\ [](reloads = succeeded)
    /\ [][/\ reloads' # reloads =>
               /\ reloads' = reloads + 1
               /\ BodyEnds /\ ~lastThrew'
               /\ mf' = "instance"
               /\ reloadFor' = artifact'
               /\ mfLoaded' = reloadFor'
          /\ BodyEnds /\ lastThrew' => reloads' = reloads
          /\ BodyEnds /\ ~lastThrew' => reloads' = reloads + 1
         ]_vars

\* two reloads for two successful builds, and a failed build without one
C7_Witness ==
    /\ reloads = 2
    /\ completed = 3
    /\ reloadFor = mfLoaded

\* C8: at most one emulator instance is ever constructed; none exists before
\* the first successful build, which constructs it, and every later
\* successful build reconfigures that instance.
C8_SingleEmulator ==
    /\ [](/\ constructed <= 1
          /\ (mf = "undefined") <=> (constructed = 0)
          /\ (succeeded = 0) <=> (constructed = 0))
    /\ [][/\ constructed' # constructed => succeeded = 0 /\ succeeded' = 1
          /\ succeeded >= 1 /\ succeeded' = succeeded + 1 =>
               /\ constructed' = constructed
               /\ mf' = mf
               /\ Updating # {} /\ Updating' = {}
               /\ mfLoaded' = artifact
         ]_vars

\* the instance was constructed once and reconfigured by a later build
C8_Witness == constructed = 1 /\ succeeded >= 2 /\ mfLoaded >= 2

\* C9: dispose() is called exactly once, by the close handler of the HTTP
\* listener: never before the close event, never a second time.
C9_DisposedOnceAtClose ==
    /\ [](/\ disposeCalls <= 1
          /\ closed <=> (disposeCalls = 1)
          /\ mfDisposed <=> closed)
    /\ [][disposeCalls' # disposeCalls => ~closed /\ closed']_vars

\* the listener closed, dispose ran once, and rebuilds went on afterwards
C9_Witness == closed /\ disposeCalls = 1 /\ completed >= 2

\* The three conditions of the middleware, stated on the request itself.
NoPublicAsset == ~IsPublicFile(publicDir, url)
NoExcludeMatches ==
    \A i \in 1..Len(excludePatterns) : ~matchPattern(excludePatterns[i], url)
GuardAccepts == shouldHandlePath(base, safeParseUrlPath(url))
WorkerBound == NoPublicAsset /\ NoExcludeMatches /\ GuardAccepts
Handled == mwPc \in { "passed", "errored", "sent" }

\* C10 as stated: a request is handed to the emulator if and only if no
\* public asset exists at its path, no exclude pattern matches it and the
\* guard accepts its pathname; every other request is passed through.
C10_DispatchIffWorkerBound ==
    Handled =>
        /\ (received = 1) <=> WorkerBound
        /\ received = 0 => mwPc = "passed"

\* C10, amended: a request is handed to the emulator, once, if and only if
\* the three conditions hold and createWorkerRequest does not throw; when a
\* condition fails the request is passed through; when the conversion throws
\* the error goes to next(error); in both cases the emulator receives nothing.
C10_DispatchIffConverted ==
    /\ received <= 1
    /\ mwPc \in { "convert", "dispatch" } => WorkerBound
    /\ mwPc = "convert" => received = 0
    /\ mwPc = "dispatch" => received = 1
    /\ Handled =>
         /\ (received = 1) <=> (WorkerBound /\ ~convertThrew)
         /\ ~WorkerBound => mwPc = "passed"
         /\ WorkerBound /\ convertThrew => mwPc = "errored"
         /\ mwPc = "passed" => ~WorkerBound

\* a request that went through all three checks and reached the emulator
C10_Witness ==
    /\ mwPc = "sent"
    /\ received = 1
    /\ publicDir.set
    /\ excludePatterns # << >>
    /\ normalizeBasePath(base) # << >>

\* C11 as stated: a request whose path cannot be parsed is passed through
\* to the host, neither guarded nor rewritten nor handed to the emulator,
\* whatever the configured base path, the empty one included.
Unparseable == url # << >> /\ safeParseUrlPath(url) = Undefined
C11_UnparseablePassedThrough ==
    mwPc # "idle" /\ Unparseable => mwPc = "passed" /\ received = 0

\* C12: the initial build comes before any traffic: whenever a request has
\* reached the middleware or been handed to the emulator, or a file change
\* has scheduled a rebuild, the initial call of rebuildWorker has resolved, the artifact is written
\* and the emulator is there.
C12_InitialBuildFirst ==
    (received >= 1 \/ nSched >= 1 \/ mwPc # "idle") =>
        /\ call[0].pc = "resolved"
        /\ artifact >= 1
        /\ mf = "instance"

\* a request dispatched and a rebuild scheduled, after the initial build
C12_Witness ==
    /\ received = 1
    /\ lastScheduled
    /\ nSched >= 1
    /\ call[0].pc = "resolved"

\* C13 as stated: an exception raised while a worker-bound request is
\* converted, dispatched, post-processed by the injector or sent back is
\* forwarded to the host's error pipeline (next(error)); the request never
\* ends in a crash.
C13_ExceptionsForwarded == threwAt # "none" => mwPc = "errored"

\* C14: for every base and every pathname the guard returns true when the
\* normalized base is empty, and otherwise exactly when the pathname is the
\* normalized base or the normalized base, a slash and some rest; the guard
\* of base /a accepts /a and /a/x and rejects /ax and /x.
UnderBase(nb, p) ==
    \E k \in 0..Len(p) :
        p = nb \o << Slash >> \o SubSeq(p, Len(p) - k + 1, Len(p))
C14_GuardIffUnderBase ==
    utilPc \in { "guarded", "rewritten" } =>
        LET nb == normalizeBasePath(base) IN
        /\ nb = << >> => handles
        /\ nb # << >> =>
              (handles <=> (guardInput = nb \/ UnderBase(nb, guardInput)))
        /\ nb = << "/", "a" >> =>
              /\ guardInput \in { << "/", "a" >>, << "/", "a", "/", "x" >> }
                    => handles
              /\ guardInput \in { << "/", "a", "x" >>, << "/", "x" >> }
                    => ~handles

\* the guard of a base that normalizes to /a has rejected /ax
C14_Witness ==
    /\ utilPc = "guarded"
    /\ base = << "a", "/" >>
    /\ guardInput = << "/", "a", "x" >>
    /\ ~handles

\* C15: with a non-empty normalized base the rewriter maps a request whose
\* pathname is the base to "/", one whose pathname is the base, a slash and
\* some rest to the slash and the rest, and returns any other request as it
\* is; the rewritten pathname is never empty and starts with a slash, and
\* method, headers and body are those of the request.
C15_RewriteContract ==
    utilPc = "rewritten" =>
        LET nb == normalizeBasePath(base)
            p == rewriterInput.pathname
        IN
        /\ nb # << >>
        /\ p = nb => rewritten.pathname = << Slash >>
        /\ UnderBase(nb, p) => rewritten.pathname = Slice(p, Len(nb))
        /\ ~(p = nb \/ UnderBase(nb, p)) => rewritten = rewriterInput
        /\ rewritten.pathname # << >>
        /\ rewritten.pathname[1] = Slash
        /\ rewritten.method = rewriterInput.method
        /\ rewritten.headers = rewriterInput.headers
        /\ rewritten.body = rewriterInput.body

\* a POST for /a/x rewritten to /x for a base that normalizes to /a
C15_Witness ==
    /\ utilPc = "rewritten"
    /\ normalizeBasePath(base) = << "/", "a" >>
    /\ rewriterInput.pathname = << "/", "a", "/", "x" >>
    /\ rewriterInput.method = "POST"
    /\ rewritten.pathname = << "/", "x" >>
    /\ rewritten.body = "b"

\* C16 as stated: once the handler has read the emulator's response, what
\* it has written is that response unmodified, unless injection is on and
\* the content type is HTML; then it is the response with the same status
\* and headers but for content-length, and the body followed by one script
\* tag that carries the nonce of the content-security-policy header.
Processed ==
    /\ response # NoResponse
    /\ mwPc # "text"
    /\ threwAt # "text"
C16_WrittenResponse ==
    Processed =>
        IF injectClientScript /\ MatchesHtml(response.contentType)
        THEN /\ written.status = response.status
             /\ written.contentType = response.contentType
             /\ written.csp = response.csp
             /\ ~written.contentLength
             /\ written.body = response.body \o << Script(NonceOf(response.csp)) >>
        ELSE written = response

\* C17 as stated: a change of a file that matches the ignore list or lies
\* inside the output directory (the directory itself or a path under it)
\* never schedules a rebuild, and a change of any other file always calls
\* scheduleRebuild.
InsideOutDir(file) == file = outDir \/ UnderBase(outDir, file)
C17_WatcherFilter ==
    lastFile # << >> =>
        (lastScheduled <=>
            ~(shouldIgnorePath(lastFile, ignoreWatching) \/ InsideOutDir(lastFile)))

\* C18 as stated: every request the middleware hands to the rewriter has
\* been accepted by the guard for the same base, so the rewriter never
\* takes its fallback branch on the request path.
C18_FallbackUnreachable ==
    received = 1 => RewriteBranch(base, RequestPathname(url)) # "fallback"

\* C19 as stated: once the emulator has been disposed at listener close no
\* later step uses it: no step starts a reconfiguration (mf.setOptions) and
\* no step hands it a request (mf.dispatchFetch).
C19_NoUseAfterDispose ==
    [][mfDisposed =>
          /\ Updating' \subseteq Updating
          /\ received' <= received]_vars

\* C20: the in-progress flag covers the emulator update as well as the
\* bundler invocation: at most one call of rebuildWorker is at the bundler
\* or at the reconfiguration of the emulator, never one at each and never
\* two reconfigurations together, and the flag is set while one is.
C20_FlagCoversUpdate ==
    /\ Cardinality(Bundling) + Cardinality(Updating) <= 1
    /\ Bundling \cup Updating # {} => buildInProgress

\* a rebuild request arrived during a reconfiguration and was queued
C20_Witness ==
    /\ Updating # {}
    /\ buildQueued
    /\ \E c \in Calls : call[c].pc = "resolved" /\ call[c].stack = << >> /\ c > 0

====
